---- MODULE Spec2Model ----
(***************************************************************************)
(* The Modbus register gateway of the weishaupt_modbus integration:        *)
(* ModbusAPI.connect with its pending flag, failure counter and cool-down  *)
(* sleep, ModbusObject.value / setvalue, and the tasks that call them      *)
(* (the coordinator's setup and polling sweep, an entity write).           *)
(*                                                                         *)
(* The tasks are asyncio coroutines on one event loop: a task runs without *)
(* interruption from one suspension point (asyncio.sleep, the client's     *)
(* connect, a register read or write) to the next.  One action is one such *)
(* uninterrupted stretch.  A call that has just returned to its caller is  *)
(* consumed by the caller's continuation before any other task runs        *)
(* (Settled).                                                              *)
(***************************************************************************)
EXTENDS Integers, Sequences, FiniteSets, TLC

(***************************************************************************)
(* Bounds of the model.                                                    *)
(***************************************************************************)
\* The failure counter is unbounded in the code; failing attempts stop
\* being generated once it has reached this value.
MaxFailures == 4

(***************************************************************************)
(* Program constants.                                                      *)
(***************************************************************************)
\* modbusobject.py:47   if self._failed_reconnect_counter >= 3 and not startup
BackoffThreshold == 3
\* modbusobject.py:52   await asyncio.sleep(300)
CoolDownSeconds == 300
\* modbusobject.py:184  if myexception_code.exception_code == 2
IllegalDataAddress == 2

\* const.py TypeConstants
SENSOR == "Sensor"
SENSOR_CALC == "Sensor_Calc"
SELECT == "Select"
NUMBER == "Number"
NUMBER_RO == "Number_RO"
TypeConstants == {SENSOR, SENSOR_CALC, SELECT, NUMBER, NUMBER_RO}

\* const.py FormatConstants
TEMPERATUR == "temperature"
PERCENTAGE == "percentage"
FMT_NUMBER == "number"
STATUS == "status"
UNKNOWN == "unknown"
FormatConstants == {TEMPERATUR, PERCENTAGE, FMT_NUMBER, STATUS, UNKNOWN}

\* Python's None and a present value, as sequences of length 0 and 1.
None == << >>
Some(v) == << v >>

(***************************************************************************)
(* Inputs: the static item table, the register words the device answers    *)
(* with, the values an entity writes.                                      *)
(***************************************************************************)
\* An item of the heat pump itself (device WP); its heating-circuit option
\* is not looked at.
Item(t, f) == [type |-> t, format |-> f, device |-> "WP", hk |-> FALSE]

\* An item of the second heating circuit (device HZ2); hk is the config
\* entry's option for that circuit.
HeatingCircuitItem(t, f, hk) ==
    [type |-> t, format |-> f, device |-> "HZ2", hk |-> hk]

\* check_configured: an item of a heating circuit is configured when the
\* config entry enables the circuit; every other item is.
check_configured(item) ==
    IF item.device = "HZ2" THEN item.hk ELSE TRUE

\* The item list handed to the coordinator (DEVICELISTS); every kind and
\* every format occurs in one of the tables.
ItemTables ==
    { << Item(SENSOR, TEMPERATUR), Item(NUMBER, PERCENTAGE) >>,
      << Item(SENSOR_CALC, FMT_NUMBER), Item(SELECT, STATUS) >>,
      << Item(NUMBER_RO, TEMPERATUR), Item(NUMBER, TEMPERATUR) >>,
      << HeatingCircuitItem(SENSOR, TEMPERATUR, FALSE),
         Item(SENSOR, PERCENTAGE) >> }

\* 16-bit words a register can carry.
RawWords == {250, 32768, 65535}

\* Exception codes of an error response: illegal data address, and another.
ExceptionCodes == {IllegalDataAddress, 4}

\* Values handed to setvalue by a number entity's write.
WriteVals == {-5, 30}

\* The result list of a status item: entries of number and translation key.
StatusItem(n, k) == [number |-> n, translation_key |-> k]

ResultList == { StatusItem(30, "auto") }

\* The option keys a select entity's write is called with: one of the list,
\* one that is not.
SelectOptions == {"auto", "absent"}

\* The number the lookup returns for a key that is not in the result list.
UnknownKeyNumber == -1

\* ModbusItem.get_number_from_translation_key for a key and a result list.
get_number_from_translation_key(val) ==
    IF \E e \in ResultList : e.translation_key = val
    THEN (CHOOSE e \in ResultList : e.translation_key = val).number
    ELSE UnknownKeyNumber

\* The tasks that call the gateway.
Procs == {"coord", "writer"}

VARIABLES
    connected,   \* AsyncModbusTcpClient.connected
    pending,     \* ModbusAPI._connect_pending
    counter,     \* ModbusAPI._failed_reconnect_counter
    reachable,   \* environment: the device accepts TCP connections
    setupDone,   \* the coordinator's _async_setup has been invoked
    ppc,         \* each task's position
    frame,       \* each task's call of ModbusAPI.connect
    io,          \* each task's call of ModbusObject.value / setvalue
    sweepIdx,    \* fetch_data: index of the item being read
    items,       \* the item table (static)
    invalid,     \* ModbusItem.is_invalid per item
    state,       \* ModbusItem.state per item
    pm,          \* the PowerMap object and its initialize call
    query        \* the last call of PowerMap.map

vars == << connected, pending, counter, reachable, setupDone, ppc, frame, io,
           sweepIdx, items, invalid, state, pm, query >>

gateway == << connected, pending, counter >>

(***************************************************************************)
(* ModbusObject: decoding and encoding of register values.                 *)
(* A decode result is the returned value and the is_invalid flag it sets.  *)
(***************************************************************************)
Decoded(v, inv) == [val |-> v, is_invalid |-> inv]

check_temperature_UnsignedPasses(val) ==
    CASE val = -32768 -> Decoded(None, TRUE)
      [] val = -32767 -> Decoded(Some(-999), FALSE)
      [] OTHER        ->
            Decoded(Some(IF val > 32768 THEN val - 65536 ELSE val), FALSE)

check_temperature_BrokenPasses(val) ==
    CASE val = -32768 -> Decoded(None, TRUE)
      [] val = 32768  -> Decoded(None, TRUE)
      [] OTHER        ->
            Decoded(Some(IF val > 32768 THEN val - 65536 ELSE val), FALSE)

check_temperature_SignedSentinel(val) ==
    CASE val \in {-32768, 32768} -> Decoded(None, TRUE)
      [] val \in {-32767, 32769} -> Decoded(Some(-999), FALSE)
      [] OTHER        ->
            Decoded(Some(IF val > 32768 THEN val - 65536 ELSE val), FALSE)

check_temperature_NoComplement(val) ==
    CASE val = -32768 -> Decoded(None, TRUE)
      [] val = 32768  -> Decoded(None, TRUE)
      [] val = -32767 -> Decoded(Some(-999), FALSE)
      [] OTHER        -> Decoded(Some(val), FALSE)

check_temperature(val) ==
    CASE val = -32768 -> Decoded(None, TRUE)
      [] val = 32768  -> Decoded(None, TRUE)
      [] val = -32767 -> Decoded(Some(-999), FALSE)
      [] OTHER        -> Decoded(Some(IF val > 32768 THEN val - 65536 ELSE val), FALSE)

check_percentage_NoSentinel(val) == Decoded(Some(val), FALSE)

check_percentage(val) ==
    IF val = 65535 THEN Decoded(None, TRUE) ELSE Decoded(Some(val), FALSE)

check_status(val) == Decoded(Some(val), FALSE)

check_valid_result(format, val) ==
    CASE format = TEMPERATUR -> check_temperature(val)
      [] format = PERCENTAGE -> check_percentage(val)
      [] format = STATUS     -> check_status(val)
      [] OTHER               -> Decoded(Some(val), FALSE)

check_valid_response_Unchanged(format, val) == val

check_valid_response_OnesComplement(format, val) ==
    IF format = TEMPERATUR /\ val < 0 THEN val + 65535 ELSE val

check_valid_response(format, val) ==
    IF format = TEMPERATUR /\ val < 0 THEN val + 65536 ELSE val

(***************************************************************************)
(* Responses of the device to a register read.                             *)
(***************************************************************************)
Registers(w) == [kind |-> "registers", word |-> w, code |-> 0]
EmptyRegisters == [kind |-> "empty", word |-> 0, code |-> 0]
ErrorResponse(c) == [kind |-> "error", word |-> 0, code |-> c]
RaisesModbusException == [kind |-> "modbus_exc", word |-> 0, code |-> 0]
RaisesOtherException == [kind |-> "other_exc", word |-> 0, code |-> 0]

\* validate_modbus_answer: the value returned and the is_invalid flag after
\* it, given the flag before it.
validate_modbus_answer_AnyCode(format, inv, mbr) ==
    CASE mbr.kind = "error" -> Decoded(None, TRUE)
      [] mbr.kind = "registers" -> check_valid_result(format, mbr.word)
      [] OTHER -> Decoded(None, inv)

validate_modbus_answer(format, inv, mbr) ==
    CASE mbr.kind = "error" ->
            Decoded(None, IF mbr.code = IllegalDataAddress THEN TRUE ELSE inv)
      [] mbr.kind = "registers" -> check_valid_result(format, mbr.word)
      [] OTHER -> Decoded(None, inv)

\* Mutant of ReadSpace: NUMBER_RO items are read from the input registers.
ReadSpace_NumberRoInput(type) ==
    CASE type \in {SENSOR, SENSOR_CALC, NUMBER_RO} -> "input"
      [] type \in {SELECT, NUMBER}                 -> "holding"
      [] OTHER                                     -> "none"

\* The address space ModbusObject.value reads for an item type
\* ("none": the type matches no case and nothing is read).
ReadSpace(type) ==
    CASE type \in {SENSOR, SENSOR_CALC}          -> "input"
      [] type \in {SELECT, NUMBER, NUMBER_RO}    -> "holding"
      [] OTHER                                   -> "none"

\* Mutant of ReadAttempted: the connected check of value is missing.
ReadAttempted_Unconnected(conn, inv) == ~inv

\* ModbusObject.value, lines 208-219: the read is attempted only on a
\* connected client and for an item that is not marked invalid.
ReadAttempted_IgnoresInvalid(conn, inv) == conn

ReadAttempted(conn, inv) == conn /\ ~inv

\* ModbusObject.setvalue, lines 259-271: the write is attempted only on a
\* connected client and for a type that is not read-only.
WriteAttempted_NumberRo(conn, type) ==
    conn /\ type \notin {SENSOR, SENSOR_CALC}

WriteAttempted(conn, type) ==
    conn /\ type \notin {SENSOR, NUMBER_RO, SENSOR_CALC}

(***************************************************************************)
(* ModbusAPI.connect                                                       *)
(***************************************************************************)
NoFrame ==
    [pc |-> "none", startup |-> FALSE, n0 |-> 0, waited |-> 0,
     attempted |-> FALSE, outcome |-> "none", ret |-> FALSE, closed |-> FALSE]

\* Mutant of AlreadyPending: the pending flag is not consulted.
AlreadyPending_Ignored == FALSE

\* line 42: the early return of a call that finds a connect pending
AlreadyPending == pending

\* Mutant of MustWait: the startup flag is not consulted.
MustWait_IgnoresStartup(n, startup) == n >= BackoffThreshold

\* line 47: the cool-down sleep is taken
MustWait(n, startup) == n >= BackoffThreshold /\ ~startup

\* line 52: the seconds slept before the attempt
BackoffSeconds(n) == CoolDownSeconds

\* Mutant of CounterAfterSuccess: the counter is not reset.
CounterAfterSuccess_Kept(n) == n

\* line 56: the failure counter after a successful attempt
CounterAfterSuccess(n) == 0

\* lines 60, 67: the failure counter after a failed attempt
CounterAfterFailure(n) == n + 1

\* What the client's connect() does: it connects when the device is
\* reachable; otherwise it returns not connected, raises ModbusException,
\* or raises a socket error (OSError).
AttemptOutcomes ==
    IF reachable THEN {"ok"} ELSE {"refused", "modbus_exc", "os_error"}

\* The exceptions of the client that connect's except clause catches
\* (line 65: except ModbusException).
CaughtByConnect(o) == o = "modbus_exc"

\* connect(startup) up to its first suspension, called by task p.
connect(p, startup) ==
    IF AlreadyPending
    THEN /\ frame' = [frame EXCEPT ![p] =
                [NoFrame EXCEPT !.pc = "returned", !.startup = startup,
                                !.n0 = counter, !.outcome = "pending",
                                !.ret = connected]]
         /\ UNCHANGED gateway
    ELSE /\ pending' = TRUE
         /\ frame' = [frame EXCEPT ![p] =
                [NoFrame EXCEPT
                    !.pc = IF MustWait(counter, startup) THEN "sleep" ELSE "attempt",
                    !.startup = startup,
                    !.n0 = counter,
                    !.attempted = ~MustWait(counter, startup)]]
         /\ UNCHANGED << connected, counter >>

\* A call returned (or raised) and its caller has not yet continued.
Returning(p) ==
    \/ frame[p].pc \in {"returned", "raised"}
    \/ io[p].pc \in {"returned", "raised", "cancelled"}
Settled == \A p \in Procs : ~Returning(p)

\* line 52 -> 53: the cool-down sleep ends and the client's connect is invoked.
ConnectWake(p) ==
    /\ Settled
    /\ frame[p].pc = "sleep"
    /\ frame' = [frame EXCEPT ![p].pc = "attempt",
                              ![p].waited = BackoffSeconds(frame[p].n0),
                              ![p].attempted = TRUE]
    /\ UNCHANGED << gateway, reachable, setupDone, ppc, io, sweepIdx, items,
                    invalid, state, pm, query >>

\* lines 53-70: the client's connect() ends and connect runs to its end.
ConnectDone(p) ==
    /\ Settled
    /\ frame[p].pc = "attempt"
    /\ \E o \in AttemptOutcomes :
        CASE o = "ok" ->
                /\ connected' = TRUE
                /\ counter' = CounterAfterSuccess(counter)
                /\ pending' = FALSE
                /\ frame' = [frame EXCEPT ![p].pc = "returned",
                                          ![p].outcome = o,
                                          ![p].ret = TRUE]
          [] o = "refused" \/ (o # "ok" /\ CaughtByConnect(o)) ->
                /\ counter < MaxFailures
                /\ counter' = CounterAfterFailure(counter)
                /\ pending' = FALSE
                /\ connected' = FALSE          \* self._modbus_client.close()
                /\ frame' = [frame EXCEPT ![p].pc = "returned",
                                          ![p].outcome = o,
                                          ![p].closed = TRUE,
                                          ![p].ret = FALSE]
          [] OTHER ->                          \* the exception propagates
                /\ connected' = FALSE          \* the attempt did not connect
                /\ frame' = [frame EXCEPT ![p].pc = "raised",
                                          ![p].outcome = o]
                /\ UNCHANGED << pending, counter >>
    /\ UNCHANGED << reachable, setupDone, ppc, io, sweepIdx, items, invalid,
                    state, pm, query >>

(***************************************************************************)
(* ModbusObject.value and ModbusObject.setvalue                            *)
(***************************************************************************)
\* A call of value or setvalue; key is the option the calling select entity
\* was given, kept by set_translate_val across the call.
NoIO ==
    [pc |-> "none", op |-> "none", item |-> 0, space |-> "none",
     conn0 |-> FALSE, inv0 |-> FALSE, issued |-> FALSE, wire |-> 0,
     val |-> 0, ret |-> None, ans |-> "none", code |-> 0, key |-> ""]

\* ModbusObject.value up to its first suspension, for item i, by task p:
\* either it returns None at once or a read request is in flight.
value(p, i) ==
    LET base == [NoIO EXCEPT !.op = "read", !.item = i,
                             !.conn0 = connected, !.inv0 = invalid[i]]
        space == ReadSpace(items[i].type)
    IN  IF ReadAttempted(connected, invalid[i]) /\ space # "none"
        THEN io' = [io EXCEPT ![p] =
                [base EXCEPT !.pc = "inflight", !.space = space,
                             !.issued = TRUE]]
        ELSE io' = [io EXCEPT ![p] = [base EXCEPT !.pc = "returned"]]

\* The answers a read in flight can get: any response while the connection
\* stands; the client raises once it is gone, and may raise at any time.
ReadAnswers ==
    IF connected
    THEN {Registers(w) : w \in RawWords} \cup {ErrorResponse(c) : c \in ExceptionCodes}
            \cup {EmptyRegisters, RaisesModbusException, RaisesOtherException}
    ELSE {RaisesModbusException, RaisesOtherException}

\* The exceptions of the client: a ModbusException, or any other one (an
\* OSError of the socket, a TimeoutError).
ClientExceptions == {"modbus_exc", "other_exc"}

\* line 244: the only handler of value is `except ModbusException`.
CaughtByValue(kind) == kind = "modbus_exc"

\* line 278: the only handler of setvalue is `except ModbusException`.
CaughtBySetvalue(kind) == kind = "modbus_exc"

\* lines 224-250: the read request is answered and value returns.
ReadDone(p) ==
    /\ Settled
    /\ io[p].pc = "inflight"
    /\ io[p].op = "read"
    /\ \E mbr \in ReadAnswers :
        LET i == io[p].item
            d == validate_modbus_answer(items[i].format, invalid[i], mbr)
            answered == [io[p] EXCEPT !.ans = mbr.kind, !.code = mbr.code,
                                      !.val = mbr.word]
        IN  IF mbr.kind \in ClientExceptions
            THEN /\ UNCHANGED invalid
                 /\ IF CaughtByValue(mbr.kind)
                    THEN \* logged; value returns None
                         io' = [io EXCEPT ![p] =
                                    [answered EXCEPT !.pc = "returned"]]
                    ELSE \* the exception leaves value
                         io' = [io EXCEPT ![p] =
                                    [answered EXCEPT !.pc = "raised"]]
            ELSE /\ invalid' = [invalid EXCEPT ![i] = d.is_invalid]
                 /\ io' = [io EXCEPT ![p] =
                        [answered EXCEPT !.pc = "returned", !.ret = d.val]]
    /\ UNCHANGED << gateway, reachable, setupDone, ppc, frame, sweepIdx, items,
                    state, pm, query >>

\* ModbusObject.setvalue up to its first suspension, for item i and value v.
setvalue(p, i, v) ==
    LET base == [NoIO EXCEPT !.op = "write", !.item = i, !.val = v,
                             !.conn0 = connected, !.inv0 = invalid[i],
                             !.key = io[p].key]
    IN  IF WriteAttempted(connected, items[i].type)
        THEN io' = [io EXCEPT ![p] =
                [base EXCEPT !.pc = "inflight", !.space = "holding",
                             !.issued = TRUE,
                             !.wire = check_valid_response(items[i].format, v)]]
        ELSE io' = [io EXCEPT ![p] = [base EXCEPT !.pc = "returned"]]

\* How a write request in flight can end.
WriteOutcomes == {"written"} \cup ClientExceptions

\* lines 273-285: write_register ends; setvalue returns, also after a
\* ModbusException, which it catches and logs.
WriteDone(p) ==
    /\ Settled
    /\ io[p].pc = "inflight"
    /\ io[p].op = "write"
    /\ \E o \in WriteOutcomes :
        io' = [io EXCEPT ![p].ans = o,
                         ![p].pc = IF o \in ClientExceptions
                                      /\ ~CaughtBySetvalue(o)
                                   THEN "raised" ELSE "returned"]
    /\ UNCHANGED << gateway, reachable, setupDone, ppc, frame, sweepIdx, items,
                    invalid, state, pm, query >>

(***************************************************************************)
(* MyCoordinator                                                           *)
(***************************************************************************)
NItems == Len(items)

\* fetch_data, lines 133-136: the first item from index k on that is
\* configured, 0 if there is none.
NextConfigured(k) ==
    LET rest == { j \in k..NItems : check_configured(items[j]) }
    IN  IF rest = {} THEN 0 ELSE CHOOSE j \in rest : \A h \in rest : j <= h

\* fetch_data, lines 133-148: the loop goes on from index k; items that are
\* not configured are passed without a read, and the loop ends after the
\* last item.
SweepFrom(k) ==
    LET j == NextConfigured(k)
    IN  /\ sweepIdx' = j
        /\ ppc' = [ppc EXCEPT !["coord"] = IF j = 0 THEN "idle" ELSE "sweep"]

\* fetch_data, lines 133-148: the sweep starts at the first item.
StartSweep == SweepFrom(1)

\* get_value, line 80: the item's state is assigned what the read returned.
StateAfterRead(old, ret) == ret

\* fetch_data, lines 126-131: save_connect, then the sweep.
fetch_data ==
    IF connected
    THEN /\ StartSweep
         /\ frame' = [frame EXCEPT !["coord"] = NoFrame]
         /\ UNCHANGED gateway
    ELSE /\ connect("coord", FALSE)
         /\ ppc' = [ppc EXCEPT !["coord"] = "fetch_connect"]
         /\ UNCHANGED sweepIdx

\* _async_update_data, lines 172-187: save_connect, then fetch_data.
async_update_data ==
    IF connected
    THEN fetch_data
    ELSE /\ connect("coord", FALSE)
         /\ ppc' = [ppc EXCEPT !["coord"] = "update_connect"]
         /\ UNCHANGED sweepIdx

\* _async_setup, line 104, on the coordinator's first refresh.
CoordSetup ==
    /\ Settled
    /\ ppc["coord"] = "idle"
    /\ ~setupDone
    /\ setupDone' = TRUE
    /\ connect("coord", TRUE)
    /\ ppc' = [ppc EXCEPT !["coord"] = "setup"]
    /\ UNCHANGED << reachable, io, sweepIdx, items, invalid, state, pm, query >>

\* A scheduled refresh: _async_update_data.
CoordUpdate ==
    /\ Settled
    /\ ppc["coord"] = "idle"
    /\ setupDone
    /\ async_update_data
    /\ UNCHANGED << reachable, setupDone, io, items, invalid, state, pm, query >>

\* connect has returned to the coordinator (or raised): the setup goes on to
\* the first update, save_connect returns its status.
CoordConnectReturn ==
    /\ ppc["coord"] \in {"setup", "update_connect", "fetch_connect"}
    /\ frame["coord"].pc \in {"returned", "raised"}
    /\ IF frame["coord"].pc = "raised"
       THEN \* the exception leaves the refresh
            /\ ppc' = [ppc EXCEPT !["coord"] = "idle"]
            /\ frame' = [frame EXCEPT !["coord"] = NoFrame]
            /\ UNCHANGED << gateway, sweepIdx >>
       ELSE CASE ppc["coord"] = "setup" -> async_update_data
              [] ppc["coord"] = "update_connect" ->
                    IF frame["coord"].ret
                    THEN fetch_data
                    ELSE /\ ppc' = [ppc EXCEPT !["coord"] = "idle"]
                         /\ frame' = [frame EXCEPT !["coord"] = NoFrame]
                         /\ UNCHANGED << gateway, sweepIdx >>
              [] OTHER ->
                    IF frame["coord"].ret
                    THEN /\ StartSweep
                         /\ frame' = [frame EXCEPT !["coord"] = NoFrame]
                         /\ UNCHANGED gateway
                    ELSE /\ ppc' = [ppc EXCEPT !["coord"] = "idle"]
                         /\ frame' = [frame EXCEPT !["coord"] = NoFrame]
                         /\ UNCHANGED << gateway, sweepIdx >>
    /\ UNCHANGED << reachable, setupDone, io, items, invalid, state, pm, query >>

\* get_value, lines 76-80: the read of the sweep's current item starts.
SweepRead ==
    /\ Settled
    /\ ppc["coord"] = "sweep"
    /\ io["coord"].pc = "none"
    /\ value("coord", sweepIdx)
    /\ UNCHANGED << gateway, reachable, setupDone, ppc, frame, sweepIdx, items,
                    invalid, state, pm, query >>

\* _async_update_data, line 178: the 10 s deadline of asyncio.timeout
\* expires while the sweep waits for a register; the wait is cancelled.
SweepDeadline ==
    /\ Settled
    /\ ppc["coord"] = "sweep"
    /\ io["coord"].pc = "inflight"
    /\ io' = [io EXCEPT !["coord"].pc = "cancelled"]
    /\ UNCHANGED << gateway, reachable, setupDone, ppc, frame, sweepIdx, items,
                    invalid, state, pm, query >>

\* get_value, line 80, in the loop of fetch_data: the assignment is made
\* and the loop goes on only when value returned; an exception or the
\* cancellation leaves the loop.
SweepGoesOn_Always(pc) == TRUE

SweepGoesOn(pc) == pc = "returned"

\* get_value, lines 80-81: the read returned; its result becomes the item's
\* state and the sweep moves on.  An exception of the read leaves get_value,
\* fetch_data and _async_update_data (line 188 handles ModbusException
\* only): the refresh ends there.
GetValueReturn ==
    /\ ppc["coord"] = "sweep"
    /\ io["coord"].pc \in {"returned", "raised", "cancelled"}
    /\ io' = [io EXCEPT !["coord"] = NoIO]
    /\ IF SweepGoesOn(io["coord"].pc)
       THEN /\ state' = [state EXCEPT ![sweepIdx] =
                                StateAfterRead(@, io["coord"].ret)]
            /\ SweepFrom(sweepIdx + 1)
       ELSE /\ sweepIdx' = 0
            /\ ppc' = [ppc EXCEPT !["coord"] = "idle"]
            /\ UNCHANGED state
    /\ UNCHANGED << gateway, reachable, setupDone, frame, items, invalid,
                    pm, query >>

(***************************************************************************)
(* An entity write: MyEntity.set_translate_val, called by                  *)
(* async_set_native_value (NUMBER) and async_select_option (SELECT).       *)
(***************************************************************************)
WritableEntityTypes == {NUMBER, SELECT}

\* What the caller of set_translate_val passes: an option key for an item
\* of the status format, a number otherwise.
WriteInputs(item) ==
    IF item.format = STATUS THEN SelectOptions ELSE WriteVals

\* set_translate_val, lines 149-152: the number written for the input.
set_translate_val(item, u) ==
    IF item.format = STATUS THEN get_number_from_translation_key(u) ELSE u

\* entities.py lines 152-157: the value is translated and connect() is
\* called without the startup flag.
WriteStart(i, u) ==
    /\ Settled
    /\ ppc["writer"] = "idle"
    /\ items[i].type \in WritableEntityTypes
    /\ check_configured(items[i])
    /\ connect("writer", FALSE)
    /\ ppc' = [ppc EXCEPT !["writer"] = "connect"]
    /\ io' = [io EXCEPT !["writer"] =
                 [NoIO EXCEPT !.item = i,
                              !.val = set_translate_val(items[i], u),
                              !.key = IF items[i].format = STATUS
                                      THEN u ELSE ""]]
    /\ UNCHANGED << reachable, setupDone, sweepIdx, items, invalid, state,
                    pm, query >>

\* entities.py lines 158-159: connect returned and setvalue is called; an
\* exception of connect leaves the write.
WriterConnectReturn ==
    /\ ppc["writer"] = "connect"
    /\ frame["writer"].pc \in {"returned", "raised"}
    /\ frame' = [frame EXCEPT !["writer"] = NoFrame]
    /\ IF frame["writer"].pc = "raised"
       THEN /\ ppc' = [ppc EXCEPT !["writer"] = "idle"]
            /\ io' = [io EXCEPT !["writer"] = NoIO]
       ELSE /\ ppc' = [ppc EXCEPT !["writer"] = "setvalue"]
            /\ setvalue("writer", io["writer"].item, io["writer"].val)
    /\ UNCHANGED << gateway, reachable, setupDone, sweepIdx, items, invalid,
                    state, pm, query >>

\* entities.py lines 160, 302, 341: setvalue returned; the entity stores
\* the written value as the item's state.  An exception of setvalue leaves
\* the entity's method before the assignment.
WriterSetReturn ==
    /\ ppc["writer"] = "setvalue"
    /\ io["writer"].pc \in {"returned", "raised"}
    /\ IF io["writer"].pc = "raised"
       THEN UNCHANGED state
       ELSE state' = [state EXCEPT ![io["writer"].item] =
                                        Some(io["writer"].val)]
    /\ io' = [io EXCEPT !["writer"] = NoIO]
    /\ ppc' = [ppc EXCEPT !["writer"] = "idle"]
    /\ UNCHANGED << gateway, reachable, setupDone, frame, sweepIdx, items,
                    invalid, pm, query >>

(***************************************************************************)
(* Environment: the device and the network.                                *)
(***************************************************************************)
DeviceDown ==
    /\ Settled
    /\ reachable
    /\ reachable' = FALSE
    /\ UNCHANGED << gateway, setupDone, ppc, frame, io, sweepIdx, items,
                    invalid, state, pm, query >>

DeviceUp ==
    /\ Settled
    /\ ~reachable
    /\ reachable' = TRUE
    /\ UNCHANGED << gateway, setupDone, ppc, frame, io, sweepIdx, items,
                    invalid, state, pm, query >>

\* The established connection is lost while the device is down.
ConnectionLost ==
    /\ Settled
    /\ connected
    /\ ~reachable
    /\ connected' = FALSE
    /\ UNCHANGED << pending, counter, reachable, setupDone, ppc, frame, io,
                    sweepIdx, items, invalid, state, pm, query >>

(***************************************************************************)
(* PowerMap (kennfeld.py).  Temperatures are in tenths of a degree; the    *)
(* arithmetic is exact.  A row of the surface is represented by the fit    *)
(* its values come from, a result of map by the cell it reads.             *)
(***************************************************************************)
Steps == 21                \* kennfeld.py:132
LastColumn == 70           \* kennfeld.py:286
MaxPolyDegree == 8         \* kennfeld.py:271
DefaultPoints == 16        \* kennfeld.py:66-83, len(known_x)
DefaultKnownT == << 350, 550 >>        \* kennfeld.py:126
\* A calibration file with other contents than the default.
FilePoints == 3
FileKnownT == << 300, 500 >>

Min(a, b) == IF a < b THEN a ELSE b
Max(a, b) == IF a > b THEN a ELSE b

\* int(n / d) for d > 0: Python's int() truncates towards zero.
Trunc(n, d) == IF n >= 0 THEN n \div d ELSE -((-n) \div d)

\* max(lo, min(hi, v)), lines 286 and 293
Clamp_None(lo, hi, v) == v

Clamp(lo, hi, v) == Max(lo, Min(hi, v))

\* line 285-286: int((outside_temp + 30) * 71 / 70), clamped to 0..70
XIndex(t) == Clamp(0, LastColumn, Trunc((t + 300) * 71, 700))

\* lines 288-293, kt = known_t
YIndex(f, kt) ==
    Clamp(0, Steps - 1, Trunc((f - kt[1]) * (Steps - 1), kt[2] - kt[1]))

\* The calibration file found by initialize.
FileCases ==
    {"absent", "unreadable", "not_utf8", "invalid_json", "not_an_object",
     "missing_known_x", "missing_known_y", "missing_known_t",
     "non_numeric_x", "non_numeric_t", "short_known_t", "long_last_row",
     "valid"}

\* lines 151-162: how reading the file ends and which of known_x, known_y,
\* known_t have been assigned from it by then.  The handler is for OSError,
\* JSONDecodeError and KeyError; the three assignments are made in turn.
Loaded(n, end) ==
    [kx |-> IF n >= 1 THEN "file" ELSE "default",
     ky |-> IF n >= 2 THEN "file" ELSE "default",
     kt |-> IF n >= 3 THEN "file" ELSE "default",
     end |-> end]

ReadFile(file) ==
    CASE file \in {"absent", "unreadable", "invalid_json", "missing_known_x"}
                                    -> Loaded(0, "caught")
      [] file = "missing_known_y"   -> Loaded(1, "caught")
      [] file = "missing_known_t"   -> Loaded(2, "caught")
      [] file \in {"not_utf8", "not_an_object", "non_numeric_x"}
                                    -> Loaded(0, "raised")
      [] file = "non_numeric_t"     -> Loaded(2, "raised")
      [] OTHER                      -> Loaded(3, "ok")

\* The curve fits of one build: whether scipy is there (lines 20-26), and
\* the rows for which the spline fit, the polynomial fit, or the evaluation
\* of the fitted spline or polynomial raises.
FailSets == { {}, {2}, 1 .. Steps }
FitEnvs ==
    [spline : BOOLEAN, splineFails : FailSets, polyFails : FailSets,
     splineEvalFails : FailSets, polyEvalFails : FailSets]

\* line 271
PolyDegree(n) == Min(MaxPolyDegree, n - 1)

\* _create_interpolation_func (254-276) and lines 225-241, for row r with n
\* calibration points: the fit the row's values are taken from.
RowSource_PolyRetry(env, r, n) ==
    IF env.spline /\ r \notin env.splineFails /\ r \notin env.splineEvalFails
    THEN [src |-> "spline", deg |-> 0]
    ELSE IF r \notin env.polyFails /\ r \notin env.polyEvalFails
         THEN [src |-> "poly", deg |-> PolyDegree(n)]
         ELSE [src |-> "linear", deg |-> 0]

RowSource(env, r, n) ==
    LET fitted == IF env.spline /\ r \notin env.splineFails THEN "spline"
                  ELSE IF r \notin env.polyFails THEN "poly"
                  ELSE "none"
        evalRaises == \/ fitted = "spline" /\ r \in env.splineEvalFails
                      \/ fitted = "poly" /\ r \in env.polyEvalFails
    IN  IF fitted = "none" \/ evalRaises
        THEN [src |-> "linear", deg |-> 0]
        ELSE [src |-> fitted,
              deg |-> IF fitted = "poly" THEN PolyDegree(n) ELSE 0]

NewPowerMap(file, env) ==
    [stage |-> "new", file |-> file, env |-> env,
     kx |-> "default", ky |-> "default", kt |-> "default",
     rows |-> << >>, published |-> FALSE]

NoFailures ==
    [spline |-> TRUE, splineFails |-> {}, polyFails |-> {},
     splineEvalFails |-> {}, polyEvalFails |-> {}]

NoQuery ==
    [called |-> FALSE, t |-> 0, f |-> 0, err |-> "none", x |-> 0, y |-> 0,
     nrows |-> 0]

KnownT(m) == IF m.kt = "file" THEN FileKnownT ELSE DefaultKnownT
Points(m) == IF m.kx = "file" THEN FilePoints ELSE DefaultPoints

\* __init__.py lines 65-66: the PowerMap is created and initialize opens the
\* calibration file.
InitializeStart ==
    /\ pm.stage = "new"
    /\ pm' = [pm EXCEPT !.stage = "reading"]
    /\ UNCHANGED << connected, pending, counter, reachable, setupDone, ppc,
                    frame, io, sweepIdx, items, invalid, state, query >>

\* lines 152-168: the file has been read (or not); its contents are parsed
\* and assigned.
FileRead ==
    LET l == ReadFile(pm.file)
    IN  /\ pm.stage = "reading"
        /\ pm' = [pm EXCEPT !.kx = l.kx, !.ky = l.ky, !.kt = l.kt,
                            !.stage = CASE l.end = "ok" -> "loaded"
                                        [] l.end = "caught" -> "writing"
                                        [] OTHER -> "raised"]
        /\ UNCHANGED << connected, pending, counter, reachable, setupDone,
                        ppc, frame, io, sweepIdx, items, invalid, state,
                        query >>

\* lines 169-175: the default file has been written, or writing it failed
\* with an OSError, which is logged.
WriteDefault ==
    /\ pm.stage = "writing"
    /\ pm' = [pm EXCEPT !.stage = "loaded"]
    /\ UNCHANGED << connected, pending, counter, reachable, setupDone, ppc,
                    frame, io, sweepIdx, items, invalid, state, query >>

\* _perform_interpolation has no suspension before its last row is built:
\* all rows are built in one stretch.
RowsPerStretch(n) == n

\* line 183: known_t[1] of a one-entry known_t
BuildRaisesAtStart(file) == file = "short_known_t"

\* lines 192-198: the first and the last row are the rows of known_y, the
\* rows between them have the length of known_x.
RowLength(m, r) ==
    IF r \in {1, Steps}
    THEN (IF m.ky = "file" THEN FilePoints ELSE DefaultPoints)
            + (IF m.file = "long_last_row" /\ r = Steps THEN 1 ELSE 0)
    ELSE Points(m)

\* lines 259-261 and 236-241: for a row whose length is not that of known_x
\* no fit is made, and np.interp raises on the unequal lengths.
RowRaises(m, r) == RowLength(m, r) # Points(m)

\* __init__.py lines 66-76: the power map is put into runtime_data when
\* initialize has returned.
HandedOver_AtOnce(stage) == TRUE

HandedOver(stage) == stage = "done"

\* _perform_interpolation, lines 180-241, then the return of initialize.
Build ==
    /\ pm.stage \in {"loaded", "building"}
    /\ IF pm.stage = "loaded" /\ BuildRaisesAtStart(pm.file)
       THEN pm' = [pm EXCEPT !.stage = "raised"]
       ELSE LET k == Len(pm.rows)
                m == Min(Steps, k + RowsPerStretch(Steps))
                bad == {r \in (k + 1) .. m : RowRaises(pm, r)}
                stop == IF bad = {} THEN m
                        ELSE (CHOOSE r \in bad : \A q \in bad : r <= q) - 1
                stage2 == IF bad # {} THEN "raised"
                          ELSE IF m = Steps THEN "done" ELSE "building"
            IN  pm' = [pm EXCEPT
                    !.rows = pm.rows \o
                        [j \in 1 .. (stop - k) |->
                            RowSource(pm.env, k + j, Points(pm))],
                    !.stage = stage2,
                    !.published = HandedOver(stage2)]
    /\ UNCHANGED << connected, pending, counter, reachable, setupDone, ppc,
                    frame, io, sweepIdx, items, invalid, state, query >>

\* PowerMap.map(t, f), lines 278-295, called by a consumer of runtime_data.
map(t, f) ==
    IF pm.rows = << >>
    THEN [NoQuery EXCEPT !.called = TRUE, !.t = t, !.f = f,
                         !.err = "not_initialized"]
    ELSE LET x == XIndex(t)
             y == YIndex(f, KnownT(pm))
         IN  [called |-> TRUE, t |-> t, f |-> f,
              err |-> IF y \in 0 .. (Len(pm.rows) - 1) /\ x \in 0 .. LastColumn
                      THEN "none" ELSE "index_error",
              x |-> x, y |-> y, nrows |-> Len(pm.rows)]

MapCall(t, f) ==
    /\ pm.published
    /\ ~query.called
    /\ query' = map(t, f)
    /\ UNCHANGED << connected, pending, counter, reachable, setupDone, ppc,
                    frame, io, sweepIdx, items, invalid, state, pm >>

(***************************************************************************)
(* Specification                                                           *)
(***************************************************************************)
Init ==
    /\ connected = FALSE
    /\ pending = FALSE
    /\ counter = 0
    /\ reachable \in BOOLEAN
    /\ setupDone = FALSE
    /\ ppc = [p \in Procs |-> "idle"]
    /\ frame = [p \in Procs |-> NoFrame]
    /\ io = [p \in Procs |-> NoIO]
    /\ sweepIdx = 0
    /\ items \in ItemTables
    /\ invalid = [i \in 1..Len(items) |-> FALSE]
    /\ state = [i \in 1..Len(items) |-> None]
    /\ pm = NewPowerMap("absent", NoFailures)
    /\ query = NoQuery

Next ==
    \/ \E p \in Procs : ConnectWake(p)
    \/ \E p \in Procs : ConnectDone(p)
    \/ \E p \in Procs : ReadDone(p)
    \/ \E p \in Procs : WriteDone(p)
    \/ CoordSetup
    \/ CoordUpdate
    \/ CoordConnectReturn
    \/ SweepRead
    \/ SweepDeadline
    \/ GetValueReturn
    \/ \E i \in 1..NItems : \E u \in WriteInputs(items[i]) : WriteStart(i, u)
    \/ WriterConnectReturn
    \/ WriterSetReturn
    \/ DeviceDown
    \/ DeviceUp
    \/ ConnectionLost

Spec == Init /\ [][Next]_vars

\* The polling cycle alone, on one item table: the coordinator's setup and
\* refreshes, the connect calls and register reads they make, the device.
PollInit ==
    /\ Init
    /\ items = << Item(SENSOR, TEMPERATUR), Item(NUMBER, PERCENTAGE) >>

PollNext ==
    \/ ConnectWake("coord")
    \/ ConnectDone("coord")
    \/ ReadDone("coord")
    \/ CoordSetup
    \/ CoordUpdate
    \/ CoordConnectReturn
    \/ SweepRead
    \/ SweepDeadline
    \/ GetValueReturn
    \/ DeviceDown
    \/ DeviceUp
    \/ ConnectionLost

\* The event loop runs every task that is ready; every sleep, connect
\* attempt and register request ends; the scheduler goes on refreshing.
\* Nothing obliges the device to change.
PollFairness ==
    /\ WF_vars(ConnectWake("coord"))
    /\ WF_vars(ConnectDone("coord"))
    /\ WF_vars(ReadDone("coord"))
    /\ WF_vars(CoordSetup)
    /\ WF_vars(CoordUpdate)
    /\ WF_vars(CoordConnectReturn)
    /\ WF_vars(SweepRead)
    /\ WF_vars(GetValueReturn)

FairSpec == PollInit /\ [][PollNext]_vars /\ PollFairness

\* The polling cycle when a register request need not ever be answered:
\* the timer of the deadline fires if the sweep is still waiting.
DeadlineFairness ==
    /\ WF_vars(ConnectWake("coord"))
    /\ WF_vars(ConnectDone("coord"))
    /\ WF_vars(CoordSetup)
    /\ WF_vars(CoordUpdate)
    /\ WF_vars(CoordConnectReturn)
    /\ WF_vars(SweepRead)
    /\ WF_vars(SweepDeadline)
    /\ WF_vars(GetValueReturn)

DeadlineSpec == PollInit /\ [][PollNext]_vars /\ DeadlineFairness

(***************************************************************************)
(* The methods of one ModbusObject called directly, on one item of any     *)
(* kind and format, with the client connected or not: the calls of         *)
(* setvalue, check_valid_result and check_valid_response.                  *)
(***************************************************************************)
\* The raw values handed to check_valid_result: windows around the values
\* the decoders single out, in the 16-bit range, signed and unsigned.
DecodeVals ==
    (-32768 .. -32764) \cup (-2 .. 2) \cup (248 .. 250)
        \cup (32766 .. 32770) \cup (64536 .. 64538) \cup (65533 .. 65535)

\* The values handed to check_valid_response: every negative temperature
\* down to the lowest one the decoder reports, and some values from 0 up.
LowestTemperature == -999
MaxEncodeVal == 2
EncodeVals == LowestTemperature .. MaxEncodeVal

UnitItemTables ==
    { << Item(t, f) >> : t \in TypeConstants, f \in FormatConstants }

UnitInit ==
    /\ connected \in BOOLEAN
    /\ reachable = connected
    /\ pending = FALSE
    /\ counter = 0
    /\ setupDone = FALSE
    /\ ppc = [p \in Procs |-> "idle"]
    /\ frame = [p \in Procs |-> NoFrame]
    /\ io = [p \in Procs |-> NoIO]
    /\ sweepIdx = 0
    /\ items \in UnitItemTables
    /\ invalid = [i \in 1..Len(items) |-> FALSE]
    /\ state = [i \in 1..Len(items) |-> None]
    /\ pm = NewPowerMap("absent", NoFailures)
    /\ query = NoQuery

\* A fresh object: none of its methods has been called.
Fresh == \A p \in Procs : io[p] = NoIO

\* await obj.setvalue(v), for a value v.
CallSetvalue ==
    /\ Fresh
    /\ \E v \in WriteVals : setvalue("writer", 1, v)
    /\ UNCHANGED << gateway, reachable, setupDone, ppc, frame, sweepIdx, items,
                    invalid, state, pm, query >>

\* obj.check_valid_result(v), for a raw value v: the decoded value is
\* returned and the item's validity flag is set.
CallCheckValidResult ==
    /\ Fresh
    /\ \E v \in DecodeVals :
        LET d == check_valid_result(items[1].format, v)
        IN  /\ invalid' = [invalid EXCEPT ![1] = d.is_invalid]
            /\ io' = [io EXCEPT !["coord"] =
                        [NoIO EXCEPT !.op = "decode", !.item = 1, !.val = v,
                                     !.inv0 = invalid[1], !.ret = d.val]]
    /\ UNCHANGED << gateway, reachable, setupDone, ppc, frame, sweepIdx, items,
                    state, pm, query >>

\* obj.check_valid_response(t), for a value t: the word to put on the wire
\* is returned.
CallCheckValidResponse ==
    /\ Fresh
    /\ \E t \in EncodeVals :
        io' = [io EXCEPT !["writer"] =
                [NoIO EXCEPT !.op = "encode", !.item = 1, !.val = t,
                        !.wire = check_valid_response(items[1].format, t)]]
    /\ UNCHANGED << gateway, reachable, setupDone, ppc, frame, sweepIdx, items,
                    invalid, state, pm, query >>

\* obj.check_valid_result(obj.check_valid_response(t)): the encoded word is
\* decoded again.
DecodeEncoded ==
    LET d == check_valid_result(items[1].format, io["writer"].wire)
    IN  /\ io["writer"].op = "encode"
        /\ io["coord"].op = "none"
        /\ invalid' = [invalid EXCEPT ![1] = d.is_invalid]
        /\ io' = [io EXCEPT !["coord"] =
                    [NoIO EXCEPT !.op = "redecode", !.item = 1,
                                 !.val = io["writer"].wire,
                                 !.inv0 = invalid[1], !.ret = d.val]]
        /\ UNCHANGED << gateway, reachable, setupDone, ppc, frame, sweepIdx,
                        items, state, pm, query >>

UnitNext ==
    \/ CallSetvalue
    \/ WriteDone("writer")
    \/ CallCheckValidResult
    \/ CallCheckValidResponse
    \/ DecodeEncoded

UnitSpec == UnitInit /\ [][UnitNext]_vars

(***************************************************************************)
(* One answer of the device to a read of a temperature item: every word a  *)
(* 16-bit register can carry, handed to validate_modbus_answer.            *)
(***************************************************************************)
WireWords == 0 .. 65535

WireInit ==
    /\ UnitInit
    /\ connected
    /\ items = << Item(SENSOR, TEMPERATUR) >>

\* obj.validate_modbus_answer(mbr) for a response with one register: the
\* decoded value is returned and the item's is_invalid flag is set.
CallValidateModbusAnswer ==
    /\ Fresh
    /\ \E w \in WireWords :
        LET d == validate_modbus_answer(items[1].format, invalid[1],
                                        Registers(w))
        IN  /\ invalid' = [invalid EXCEPT ![1] = d.is_invalid]
            /\ io' = [io EXCEPT !["coord"] =
                        [NoIO EXCEPT !.op = "answer", !.item = 1, !.val = w,
                                     !.ans = "registers",
                                     !.inv0 = invalid[1], !.ret = d.val]]
    /\ UNCHANGED << gateway, reachable, setupDone, ppc, frame, sweepIdx, items,
                    state, pm, query >>

WireNext == CallValidateModbusAnswer

WireSpec == WireInit /\ [][WireNext]_vars

(***************************************************************************)
(* The power map alone: initialize with any calibration file and any       *)
(* behaviour of the curve fits, then calls of map; and calls of map on a   *)
(* power map that has been built.                                          *)
(***************************************************************************)
\* The gateway is not involved.
GatewayIdle ==
    /\ connected = FALSE
    /\ reachable = FALSE
    /\ pending = FALSE
    /\ counter = 0
    /\ setupDone = FALSE
    /\ ppc = [p \in Procs |-> "idle"]
    /\ frame = [p \in Procs |-> NoFrame]
    /\ io = [p \in Procs |-> NoIO]
    /\ sweepIdx = 0
    /\ items = << Item(SENSOR_CALC, FMT_NUMBER) >>
    /\ invalid = [i \in 1..Len(items) |-> FALSE]
    /\ state = [i \in 1..Len(items) |-> None]

\* outside and flow temperatures of the calls of map (tenths of a degree)
FewOutsideTemps == {-310, 0, 450}
FewFlowTemps == {200, 450, 700}

MapInit ==
    /\ GatewayIdle
    /\ \E file \in FileCases, env \in FitEnvs : pm = NewPowerMap(file, env)
    /\ query = NoQuery

MapNext ==
    \/ InitializeStart
    \/ FileRead
    \/ WriteDefault
    \/ Build
    \/ \E t \in FewOutsideTemps, f \in FewFlowTemps : MapCall(t, f)

MapSpec == MapInit /\ [][MapNext]_vars

OutsideTemps ==
    {-9990, -400, -310, -301, -300, -299, -295, -290, 0, 5, 250, 385, 390,
     399, 400, 401, 410, 500, 9990}
FlowTemps ==
    {-100, 290, 299, 300, 301, 349, 350, 351, 360, 450, 499, 500, 501, 540,
     549, 550, 551, 600, 9990}

\* A power map built from the default calibration or from a valid file.
Built(file) ==
    [NewPowerMap(file, NoFailures) EXCEPT
        !.stage = "done", !.published = TRUE,
        !.kx = ReadFile(file).kx, !.ky = ReadFile(file).ky,
        !.kt = ReadFile(file).kt,
        !.rows = [r \in 1 .. Steps |->
                    RowSource(NoFailures, r,
                              IF ReadFile(file).kx = "file" THEN FilePoints
                              ELSE DefaultPoints)]]

QueryInit ==
    /\ GatewayIdle
    /\ pm \in {Built("absent"), Built("valid")}
    /\ query = NoQuery

QueryNext == \E t \in OutsideTemps, f \in FlowTemps : MapCall(t, f)

QuerySpec == QueryInit /\ [][QueryNext]_vars

(***************************************************************************)
(* Claims                                                                  *)
(***************************************************************************)
\* A connect call of task p that went past the pending check.
Entered(p) == frame[p].pc # "none" /\ frame[p].outcome # "pending"

\* The ceiling of the backoff (tests: BACKOFF_MAX_SECONDS).
BackoffMaxSeconds == 3600

\* C1: after 3 consecutive failed connect calls, the 4th call, made with
\* startup=False, returns false and the client's connect is not invoked
\* by it.
C1_FourthCallRefused ==
    \A p \in Procs :
        (Entered(p) /\ ~frame[p].startup /\ frame[p].n0 = BackoffThreshold)
            => /\ ~frame[p].attempted
               /\ frame[p].pc = "returned" => frame[p].ret = FALSE

\* C2: a connect call that starts while the pending flag is set returns the
\* client's connected status at once, without invoking the client's
\* connect; at most one call is sleeping or attempting at any time.
C2_SingleConnectInFlight ==
    /\ Cardinality({p \in Procs : frame[p].pc \in {"sleep", "attempt"}}) <= 1
    /\ \A p \in Procs :
        frame[p].outcome = "pending"
            => /\ frame[p].pc = "returned"
               /\ ~frame[p].attempted
               /\ frame[p].ret = connected

\* C2 witness: one task's call returned early while the other task's socket
\* attempt is in progress.
C2_Witness ==
    \E p, q \in Procs :
        /\ p # q
        /\ frame[p].outcome = "pending"
        /\ frame[q].pc = "attempt"

\* C3: a connect call that returns with the client connected returns true
\* and leaves the failure counter at 0.
C3_SuccessResetsCounter ==
    \A p \in Procs :
        (frame[p].pc = "returned" /\ connected)
            => frame[p].ret = TRUE /\ counter = 0

\* C3 witness: a call that began with the counter at the threshold or above
\* returned with the client connected.
C3_Witness ==
    \E p \in Procs :
        /\ frame[p].pc = "returned"
        /\ connected
        /\ frame[p].outcome = "ok"
        /\ frame[p].n0 >= BackoffThreshold

\* C4: a connect call whose socket attempt fails (ModbusException, socket
\* error, or not connected after the attempt) increases the failure counter
\* by exactly 1, closes the client, leaves it disconnected and returns
\* false.
C4_FailureCounted ==
    \A p \in Procs :
        (frame[p].pc \in {"returned", "raised"}
            /\ frame[p].outcome \in {"refused", "modbus_exc", "os_error"})
            => /\ frame[p].pc = "returned"
               /\ frame[p].ret = FALSE
               /\ counter = frame[p].n0 + 1
               /\ frame[p].closed
               /\ ~connected

\* C5: connect never raises to its caller.
C5_ConnectNeverRaises ==
    \A p \in Procs : frame[p].pc # "raised"

\* C6 as stated: every connect call with startup=True invokes the client's
\* connect at once, without sleeping and without being refused.
C6_ForcedAlwaysAttempts ==
    \A p \in Procs :
        (frame[p].pc # "none" /\ frame[p].startup)
            => frame[p].attempted /\ frame[p].waited = 0

\* C6 amended: a connect call with startup=True that does not find another
\* connect pending invokes the client's connect at once, without sleeping,
\* whatever the failure counter; the coordinator's setup calls connect
\* with startup=True.
C6_ForcedSkipsBackoff ==
    /\ \A p \in Procs :
        (Entered(p) /\ frame[p].startup)
            => /\ frame[p].attempted
               /\ frame[p].waited = 0
               /\ frame[p].pc # "sleep"
    /\ ppc["coord"] = "setup" => frame["coord"].startup

\* C6 witness: the coordinator's setup call is attempting the connection
\* although the counter was at the threshold or above.
C6_Witness ==
    /\ ppc["coord"] = "setup"
    /\ frame["coord"].pc = "attempt"
    /\ frame["coord"].startup
    /\ frame["coord"].n0 >= BackoffThreshold

\* C7: the wait before a non-forced attempt is 0 while the counter is below
\* 3, is 300 s at 3, grows with further failures, and never exceeds 3600 s.
C7_BackoffGrows ==
    \A p \in Procs :
        (Entered(p) /\ ~frame[p].startup /\ frame[p].attempted)
            => /\ frame[p].n0 < BackoffThreshold => frame[p].waited = 0
               /\ frame[p].n0 = BackoffThreshold => frame[p].waited = CoolDownSeconds
               /\ frame[p].n0 > BackoffThreshold => frame[p].waited > CoolDownSeconds
               /\ frame[p].waited <= BackoffMaxSeconds

\* C8: whenever the device stays reachable from some point on, the gateway
\* is again and again connected with the failure counter at 0 while the
\* coordinator sweeps the registers.
C8_EventuallyReconnected ==
    []<>(~reachable \/ (connected /\ counter = 0 /\ ppc["coord"] = "sweep"))

\* C9 as stated: a read uses the input registers exactly for SENSOR and
\* SENSOR_CALC, and the holding registers exactly for NUMBER and SELECT.
C9_HoldingOnlyWritable ==
    \A p \in Procs :
        (io[p].op = "read" /\ io[p].issued)
            => /\ io[p].space = "input"
                    <=> items[io[p].item].type \in {SENSOR, SENSOR_CALC}
               /\ io[p].space = "holding"
                    <=> items[io[p].item].type \in {NUMBER, SELECT}

\* C9 amended: a read uses the input registers exactly for SENSOR and
\* SENSOR_CALC, and the holding registers exactly for NUMBER, SELECT and
\* NUMBER_RO.
C9_ReadSpaceByKind ==
    \A p \in Procs :
        (io[p].op = "read" /\ io[p].issued)
            => /\ io[p].space \in {"input", "holding"}
               /\ io[p].space = "input"
                    <=> items[io[p].item].type \in {SENSOR, SENSOR_CALC}
               /\ io[p].space = "holding"
                    <=> items[io[p].item].type \in {NUMBER, SELECT, NUMBER_RO}

\* C9 witness: a read of a NUMBER_RO item is in flight on the holding
\* registers.
C9_Witness ==
    \E p \in Procs :
        /\ io[p].op = "read"
        /\ io[p].pc = "inflight"
        /\ io[p].space = "holding"
        /\ items[io[p].item].type = NUMBER_RO

\* C10: a read or a write called while the client is not connected issues
\* no request; the read returns None and is_invalid is unchanged.
C10_NoIOWhenDisconnected ==
    \A p \in Procs :
        (io[p].op \in {"read", "write"} /\ ~io[p].conn0)
            => /\ io[p].pc = "returned"
               /\ ~io[p].issued
               /\ io[p].op = "read" => io[p].ret = None
               /\ invalid[io[p].item] = io[p].inv0

\* C10 witness: a read of the sweep returned on a client that was not
\* connected, for an item whose last state was a value.
C10_Witness ==
    /\ io["coord"].op = "read"
    /\ io["coord"].pc = "returned"
    /\ ~io["coord"].conn0
    /\ state[io["coord"].item] # None

\* C11: a read answered by an error response returns None; the item is
\* marked invalid if the exception code is 2 (illegal data address), and
\* with every other code its validity flag stays as it was before the read.
C11_ErrorResponseDecoded ==
    \A p \in Procs :
        (io[p].op = "read" /\ io[p].pc = "returned" /\ io[p].ans = "error")
            => /\ io[p].ret = None
               /\ io[p].code = IllegalDataAddress => invalid[io[p].item]
               /\ io[p].code # IllegalDataAddress
                    => invalid[io[p].item] = io[p].inv0

\* C11 witness: a read of a valid item was answered with exception code 2
\* and the item is now invalid.
C11_Witness ==
    \E p \in Procs :
        /\ io[p].op = "read"
        /\ io[p].pc = "returned"
        /\ io[p].ans = "error"
        /\ io[p].code = IllegalDataAddress
        /\ ~io[p].inv0
        /\ invalid[io[p].item]

\* C12: a write to an item of a read-only kind (SENSOR, SENSOR_CALC,
\* NUMBER_RO) never issues a register write, whatever the value and the
\* connection state; only items of kind NUMBER or SELECT get one.
C12_ReadOnlyNeverWritten ==
    \A p \in Procs :
        io[p].op = "write"
            => /\ items[io[p].item].type \in {SENSOR, SENSOR_CALC, NUMBER_RO}
                    => (~io[p].issued /\ io[p].pc = "returned")
               /\ io[p].issued => items[io[p].item].type \in {NUMBER, SELECT}

\* C12 witness: setvalue returned for a read-only number while the client
\* was connected, and no request was issued.
C12_Witness ==
    /\ io["writer"].op = "write"
    /\ io["writer"].pc = "returned"
    /\ items[io["writer"].item].type = NUMBER_RO
    /\ io["writer"].conn0
    /\ ~io["writer"].issued

\* C13: the word a write puts on the wire is value + 65536 when the item's
\* format is temperature and the value is below 0, and the value itself in
\* every other case.
C13_WireValue ==
    \A p \in Procs :
        (io[p].op = "write" /\ io[p].issued)
            => io[p].wire =
                IF items[io[p].item].format = TEMPERATUR /\ io[p].val < 0
                THEN io[p].val + 65536
                ELSE io[p].val

\* C13 witness: a write of a negative value to a temperature item is in
\* flight with the two's complement word.
C13_Witness ==
    /\ io["writer"].op = "write"
    /\ io["writer"].pc = "inflight"
    /\ items[io["writer"].item].format = TEMPERATUR
    /\ io["writer"].val = -5
    /\ io["writer"].wire = 65531

\* C14: no exception the client raises during a register read or a register
\* write reaches the caller: value returns None to the sweep, which goes on,
\* and setvalue returns.
C14_ClientExceptionContained ==
    \A p \in Procs :
        io[p].ans \in ClientExceptions
            => /\ io[p].pc = "returned"
               /\ io[p].op = "read" => io[p].ret = None

\* The raw value io[p].val was decoded for task p: by a direct call of
\* check_valid_result, or by a read that was answered with a register.
DecodedBy(p) ==
    \/ io[p].op \in {"decode", "redecode"}
    \/ io[p].op = "read" /\ io[p].pc = "returned" /\ io[p].ans = "registers"

C16_BrokenSensorSentinel ==
    \A p \in Procs :
        (/\ DecodedBy(p)
         /\ items[io[p].item].format = TEMPERATUR
         /\ io[p].val = -32767)
            => io[p].ret = Some(-999) /\ ~invalid[io[p].item]

\* C16 witness: check_valid_result was called with -32767 on a temperature
\* item and returned -999.
C16_Witness ==
    /\ io["coord"].op = "decode"
    /\ items[1].format = TEMPERATUR
    /\ io["coord"].val = -32767
    /\ io["coord"].ret = Some(-999)
    /\ ~invalid[1]

\* The raw values check_temperature has a case of its own for.
TemperatureSentinels == {-32768, 32768, -32767}

\* C17: decoding a raw value v as a temperature returns v - 65536 when
\* 32768 < v <= 65535 and v itself for every other raw value that is not a
\* sentinel, and marks the item valid.
C17_TwosComplementDecode ==
    \A p \in Procs :
        (/\ DecodedBy(p)
         /\ items[io[p].item].format = TEMPERATUR
         /\ io[p].val \notin TemperatureSentinels)
            => /\ io[p].ret =
                    Some(IF 32768 < io[p].val /\ io[p].val <= 65535
                         THEN io[p].val - 65536
                         ELSE io[p].val)
               /\ ~invalid[io[p].item]

\* C17 witness: check_valid_result was called with 65533 on a temperature
\* item and returned -3.
C17_Witness ==
    /\ io["coord"].op = "decode"
    /\ items[1].format = TEMPERATUR
    /\ io["coord"].val = 65533
    /\ io["coord"].ret = Some(-3)
    /\ ~invalid[1]

\* C18: for every temperature t from -999 to -1, check_valid_response
\* yields the word (t + 65536) mod 65536, and decoding that word as a
\* temperature returns t and marks the item valid.
C18_EncodeDecodeRoundTrip ==
    (/\ io["writer"].op = "encode"
     /\ items[1].format = TEMPERATUR
     /\ io["writer"].val \in -999 .. -1)
        => /\ io["writer"].wire = (io["writer"].val + 65536) % 65536
           /\ io["coord"].op = "redecode"
                => /\ io["coord"].val = io["writer"].wire
                   /\ io["coord"].ret = Some(io["writer"].val)
                   /\ ~invalid[1]

\* C18 witness: -999 was encoded as 64537 and decoded back to -999.
C18_Witness ==
    /\ io["writer"].op = "encode"
    /\ items[1].format = TEMPERATUR
    /\ io["writer"].val = -999
    /\ io["writer"].wire = 64537
    /\ io["coord"].op = "redecode"
    /\ io["coord"].ret = Some(-999)
    /\ ~invalid[1]

\* C19: decoding a raw value under a format other than temperature returns
\* the value as it is and marks the item valid, except 65535 under the
\* percentage format, which returns None and marks the item invalid.
C19_OtherFormatsPassThrough ==
    \A p \in Procs :
        (DecodedBy(p) /\ items[io[p].item].format # TEMPERATUR)
            => IF items[io[p].item].format = PERCENTAGE /\ io[p].val = 65535
               THEN io[p].ret = None /\ invalid[io[p].item]
               ELSE io[p].ret = Some(io[p].val) /\ ~invalid[io[p].item]

\* C19 witness: 65535 was decoded for a percentage item, which is invalid
\* now.
C19_Witness ==
    /\ io["coord"].op = "decode"
    /\ items[1].format = PERCENTAGE
    /\ io["coord"].val = 65535
    /\ io["coord"].ret = None
    /\ invalid[1]

\* A step of the entity write: the writing task's position, connect call
\* or register request changes.
WriterActs ==
    \/ ppc'["writer"] # ppc["writer"]
    \/ frame'["writer"] # frame["writer"]
    \/ io'["writer"] # io["writer"]

\* C20: the gateway's connection state (pending flag, failure counter,
\* connected status) and every item's state and validity flag change only
\* in steps of the polling cycle: no step of an entity write changes them,
\* whether a sweep is active or not.
C20_OnlyPollingMutates ==
    [][WriterActs =>
        UNCHANGED << connected, pending, counter, state, invalid >>]_vars

\* C21: when the deadline of a sweep expires, no further read of that sweep
\* is made and the sweep ends with every item's state and validity as they
\* were at that moment; every sweep starts at the first item; and a sweep
\* always ends, also when a register request is never answered.
C21_DeadlineAbortsSweep ==
    /\ [][io["coord"].pc = "cancelled"
            => /\ ppc'["coord"] = "idle"
               /\ io'["coord"] = NoIO
               /\ UNCHANGED << state, invalid >>]_vars
    /\ [][(ppc["coord"] # "sweep" /\ ppc'["coord"] = "sweep")
            => sweepIdx' = 1]_vars
    /\ (ppc["coord"] = "sweep") ~> (ppc["coord"] = "idle")

\* C21 witness: the deadline expired during the read of the first item,
\* with the second item still to be read.
C21_Witness ==
    /\ ppc["coord"] = "sweep"
    /\ io["coord"].pc = "cancelled"
    /\ sweepIdx = 1
    /\ sweepIdx < NItems

\* The cell of the surface a call of map reads.
Cell(q) == << q.y, q.x >>

\* C22: map saturates: for every flow temperature, an outside temperature
\* below -30 gives the result of -30 and one above 40 the result of 40; a
\* flow temperature below known_t[0] reads row 0 and one above known_t[1]
\* row steps-1; the indices lie in 0..70 and 0..steps-1 and no call fails.
C22_QuerySaturates ==
    query.called
        => /\ query.err = "none"
           /\ query.x \in 0 .. 70
           /\ query.y \in 0 .. (Steps - 1)
           /\ query.t < -300 => Cell(query) = Cell(map(-300, query.f))
           /\ query.t > 400 => Cell(query) = Cell(map(400, query.f))
           /\ query.f < KnownT(pm)[1] => query.y = 0
           /\ query.f > KnownT(pm)[2] => query.y = Steps - 1

\* C22 witness: map(-999, 45) was called and read column 0 of row 10, the
\* cell of map(-30, 45).
C22_Witness ==
    /\ query.called
    /\ query.t = -9990
    /\ query.f = 450
    /\ pm.kt = "default"
    /\ Cell(query) = << 10, 0 >>

\* The calibration files that are absent, unparseable or well-formed with
\* all three keys, or lack known_x or known_t: after them known_x and
\* known_y have the same number of points.
ConsistentFiles ==
    {"absent", "unreadable", "invalid_json", "missing_known_x",
     "missing_known_t", "valid"}

C24_BadFileFallsBack ==
    (pm.file # "valid" /\ pm.stage \notin {"new", "reading"})
        => /\ pm.stage # "raised"
           /\ pm.kx = "default"
           /\ pm.ky = "default"
           /\ pm.kt = "default"

\* C25: no call of map observes a partially built surface: a call fails
\* with 'PowerMap not initialized' or reads a surface with all `steps`
\* rows, and the power map is handed to its consumers only when the build
\* is complete.
C25_NoPartialSurface ==
    /\ query.called
        => \/ query.err = "not_initialized" /\ query.nrows = 0
           \/ query.nrows = Steps
    /\ pm.published => (pm.stage = "done" /\ Len(pm.rows) = Steps)

\* C25 witness: map was called on a power map built after the default file
\* had been written, and read a cell of the complete surface.
C25_Witness ==
    /\ pm.file = "absent"
    /\ pm.published
    /\ query.called
    /\ query.err = "none"
    /\ query.nrows = Steps

\* C26: whenever no connect call is in progress the pending flag is false,
\* however the last call ended.
C26_PendingOnlyDuringConnect ==
    (\A p \in Procs : frame[p].pc = "none") => ~pending

C28_StateIsReadResult ==
    /\ [][(/\ ppc["coord"] = "sweep"
           /\ io["coord"].op = "read"
           /\ io["coord"].pc \in {"returned", "raised"}
           /\ io'["coord"].pc = "none")
            => /\ state'[sweepIdx] = io["coord"].ret
               /\ \A i \in 1 .. NItems :
                     i # sweepIdx => state'[i] = state[i]]_vars
    /\ [][\A i \in 1 .. NItems :
            (items[i].device = "HZ2" /\ ~items[i].hk)
                => state'[i] = state[i]]_vars

\* The numbers of the result list.
ListedNumbers == { e.number : e \in ResultList }

\* The option keys of the result list.
ListedKeys == { e.translation_key : e \in ResultList }

\* C29: a write for an item of the status format sends only a number of
\* the item's result list, and a select call with an option key that is not
\* in the list sends no write request and leaves the item's state as it is.
C29_SelectWritesListedNumber ==
    /\ [](\A p \in Procs :
            (/\ io[p].op = "write"
             /\ items[io[p].item].format = STATUS
             /\ io[p].issued)
                => /\ io[p].wire \in ListedNumbers
                   /\ io[p].key \in ListedKeys)
    /\ [][(/\ ppc["writer"] = "setvalue"
           /\ ppc'["writer"] = "idle"
           /\ items[io["writer"].item].format = STATUS
           /\ io["writer"].key \notin ListedKeys)
            => state' = state]_vars

\* A temperature item's answer to a wire word has been decoded.
WireDecoded ==
    /\ io["coord"].op = "answer"
    /\ items[1].format = TEMPERATUR
    /\ io["coord"].val \in 0 .. 65535

\* The part of C30 about the decoded value: None exactly for the word
\* 32768, the word itself below it and the word minus 65536 above it, so
\* that every value is in -32767..32767.
WireDecodeValue ==
    LET w == io["coord"].val
        r == io["coord"].ret
    IN  /\ (r = None) <=> (w = 32768)
        /\ w < 32768 => r = Some(w)
        /\ w > 32768 => r = Some(w - 65536)
        /\ r # None => r[1] \in -32767 .. 32767
        /\ w = 32769 => r = Some(-32767)

\* C30 as stated: every wire word 0..65535 decodes as a temperature to None
\* exactly for 32768, to itself below 32768 and to itself minus 65536 above
\* it, and no wire word decodes to -999.
C30_WireWordDecode ==
    WireDecoded => /\ WireDecodeValue
                   /\ io["coord"].ret # Some(-999)

\* C30 amended: the decoded values are as stated, and -999 is returned for
\* the word 64537 alone, as its two's-complement value.
C30_WireWordDecodeAmended ==
    WireDecoded => /\ WireDecodeValue
                   /\ (io["coord"].ret = Some(-999)) <=> (io["coord"].val = 64537)

\* C30 witness: the word 32769 was decoded to -32767 and the item is valid.
C30_Witness ==
    /\ WireDecoded
    /\ io["coord"].val = 32769
    /\ io["coord"].ret = Some(-32767)
    /\ ~invalid[1]
====
